---- MODULE Spec2Model ----
(***************************************************************************)
(* State-machine model of the apartment finder: the two entry points       *)
(* olx_scraper.py main() and otodom_scraper.py main(), their dedup ledger  *)
(* (load_seen_listings / save_seen_listings), the per-listing drivers      *)
(* scrape_olx, scrape_otodom_search and scrape_listings, the floor model   *)
(* (parse_floor / is_floor_valid) and the qualification filter.            *)
(*                                                                         *)
(* Strings are modelled as sequences of tokens, Python's None as the empty *)
(* sequence and a present value v as <<v>>.  Listing ids are the strings   *)
(* the code derives from a link; the model names them 1..MaxIds.           *)
(***************************************************************************)
EXTENDS Integers, Sequences, FiniteSets, TLC

---------------------------------------------------------------------------
\* Bounds of the model.
MaxIds == 2
MaxLinks == 2
MaxCards == 2
MaxRuns == 2

\* Search criteria of olx_scraper.py.
MIN_AREA == 35
MAX_AREA == 55
MIN_ROOMS == 2
MAX_ROOMS == 3
MAX_PRICE_PER_M2 == 12000

Ids == 1..MaxIds

---------------------------------------------------------------------------
\* Optional values: Python's None and a present value.
None == <<>>

Some(v) == <<v>>

\* Python truthiness of an optional number: None and 0 are falsy.
Truthy(o) == o # None /\ o[1] # 0

\* All sequences over S of length 0..n.
SeqUpTo(S, n) == UNION {[1..k -> S] : k \in 0..n}

\* The set of elements of a sequence.
Range(s) == {s[k] : k \in DOMAIN s}

---------------------------------------------------------------------------
\* Floor model.  A floor descriptor is a sequence of tokens: the decimal
\* digits, "/", the words "parter" and "PARTER", the sentinel "N/A", a sign,
\* a blank " " and the letter "x".
DigitChars == <<"0", "1", "2", "3", "4", "5", "6", "7", "8", "9">>

IsDigit(c) == \E k \in 1..10 : DigitChars[k] = c

DigitVal(c) == (CHOOSE k \in 1..10 : DigitChars[k] = c) - 1

AllDigits(s) == s # <<>> /\ \A k \in DOMAIN s : IsDigit(s[k])

RECURSIVE DecimalValue(_)
DecimalValue(s) ==
    IF s = <<>> THEN 0
    ELSE DecimalValue(SubSeq(s, 1, Len(s) - 1)) * 10 + DigitVal(s[Len(s)])

\* str.lower() on one token.
LowerToken(c) ==
    IF c = "PARTER" THEN "parter"
    ELSE IF c = "N/A" THEN "n/a"
    ELSE c

lower(s) == [k \in DOMAIN s |-> LowerToken(s[k])]

\* str.strip(): drop leading and trailing blanks.
RECURSIVE strip(_)
strip(s) ==
    IF s = <<>> THEN s
    ELSE IF s[1] = " " THEN strip(Tail(s))
    ELSE IF s[Len(s)] = " " THEN strip(SubSeq(s, 1, Len(s) - 1))
    ELSE s

\* One side of the regex ^(parter|\d+)/(parter|\d+)$.
IsFloorPart(s) == s = <<"parter">> \/ AllDigits(s)

FloorPartValue(s) == IF s = <<"parter">> THEN 0 ELSE DecimalValue(s)

SlashSplits(s) ==
    {k \in DOMAIN s : /\ s[k] = "/"
                      /\ IsFloorPart(SubSeq(s, 1, k - 1))
                      /\ IsFloorPart(SubSeq(s, k + 1, Len(s)))}

\* int(s) of Python: an optional sign followed by decimal digits.
IsPyInt(s) ==
    \/ AllDigits(s)
    \/ /\ Len(s) >= 2
       /\ s[1] \in {"-", "+"}
       /\ AllDigits(Tail(s))

PyInt(s) ==
    IF s[1] = "-" THEN 0 - DecimalValue(Tail(s))
    ELSE IF s[1] = "+" THEN DecimalValue(Tail(s))
    ELSE DecimalValue(s)

NA == <<"N/A">>

\* Mutant of parse_floor: a descriptor that is the word "parter" alone is
\* not recognised.
parse_floor_no_bare_ground(floor_str) ==
    IF floor_str = <<>> \/ floor_str = NA THEN <<None, None>>
    ELSE LET s == lower(strip(floor_str)) IN
         IF SlashSplits(s) # {} THEN
             LET k == CHOOSE j \in SlashSplits(s) : TRUE IN
             <<Some(FloorPartValue(SubSeq(s, 1, k - 1))),
               Some(FloorPartValue(SubSeq(s, k + 1, Len(s))))>>
         ELSE IF IsPyInt(s) THEN <<Some(PyInt(s)), None>>
         ELSE <<None, None>>

\* parse_floor: <<current, total>>, each None or present.
parse_floor(floor_str) ==
    IF floor_str = <<>> \/ floor_str = NA THEN <<None, None>>
    ELSE LET s == lower(strip(floor_str)) IN
         IF SlashSplits(s) # {} THEN
             LET k == CHOOSE j \in SlashSplits(s) : TRUE IN
             <<Some(FloorPartValue(SubSeq(s, 1, k - 1))),
               Some(FloorPartValue(SubSeq(s, k + 1, Len(s))))>>
         ELSE IF s = <<"parter">> THEN <<Some(0), None>>
         ELSE IF IsPyInt(s) THEN <<Some(PyInt(s)), None>>
         ELSE <<None, None>>

\* Mutant of is_floor_valid: the top floor is not rejected.
is_floor_valid_top_ok(floor_str) ==
    LET current == parse_floor(floor_str)[1]
    IN  IF current = None THEN TRUE
        ELSE IF current[1] <= 1 THEN FALSE
        ELSE TRUE

\* is_floor_valid: reject parter (0), floor 1 and the top floor.
is_floor_valid(floor_str) ==
    LET current == parse_floor(floor_str)[1]
        total == parse_floor(floor_str)[2]
    IN  IF current = None THEN TRUE
        ELSE IF current[1] <= 1 THEN FALSE
        ELSE IF total # None /\ current[1] >= total[1] THEN FALSE
        ELSE TRUE

---------------------------------------------------------------------------
\* Qualification filter of scrape_olx.  details is the dict returned by
\* fetch_listing_details: price (a number, 0 when not found), area and rooms
\* (None when not found), floor (a descriptor), has_elevator.
\* The result is the reason of the first failing check, or "accept".

\* The reasons of the filter's "REJECTED" branches, in the order of the code.
FilterChecks ==
    <<"no-elevator", "area-range", "room-range", "floor-position",
      "price-per-area">>

\* The condition of each "REJECTED" branch, taken on its own.
check_fails(reason, details) ==
    CASE reason = "no-elevator" -> ~details.has_elevator
      [] reason = "area-range" ->
             /\ Truthy(details.area)
             /\ (details.area[1] < MIN_AREA \/ details.area[1] > MAX_AREA)
      [] reason = "room-range" ->
             /\ Truthy(details.rooms)
             /\ (details.rooms[1] < MIN_ROOMS \/ details.rooms[1] > MAX_ROOMS)
      [] reason = "floor-position" -> ~is_floor_valid(details.floor)
      [] reason = "price-per-area" ->
             /\ Truthy(details.area)
             /\ details.area[1] > 0
             /\ details.price > 0
             /\ details.price > MAX_PRICE_PER_M2 * details.area[1]

\* The conditions scrape_olx evaluates for a listing, in order: each
\* "continue" ends the iteration before the conditions that follow it.
olx_evaluated(details) ==
    IF ~details.has_elevator THEN SubSeq(FilterChecks, 1, 1)
    ELSE IF /\ Truthy(details.area)
            /\ (details.area[1] < MIN_AREA \/ details.area[1] > MAX_AREA)
         THEN SubSeq(FilterChecks, 1, 2)
    ELSE IF /\ Truthy(details.rooms)
            /\ (details.rooms[1] < MIN_ROOMS \/ details.rooms[1] > MAX_ROOMS)
         THEN SubSeq(FilterChecks, 1, 3)
    ELSE IF ~is_floor_valid(details.floor) THEN SubSeq(FilterChecks, 1, 4)
    ELSE FilterChecks

\* Mutant of olx_filter: the room range is tested before the area range.
olx_filter_rooms_first(details) ==
    IF ~details.has_elevator THEN "no-elevator"
    ELSE IF /\ Truthy(details.rooms)
            /\ (details.rooms[1] < MIN_ROOMS \/ details.rooms[1] > MAX_ROOMS)
         THEN "room-range"
    ELSE IF /\ Truthy(details.area)
            /\ (details.area[1] < MIN_AREA \/ details.area[1] > MAX_AREA)
         THEN "area-range"
    ELSE IF ~is_floor_valid(details.floor) THEN "floor-position"
    ELSE IF /\ Truthy(details.area)
            /\ details.area[1] > 0
            /\ details.price > 0
            /\ details.price > MAX_PRICE_PER_M2 * details.area[1]
         THEN "price-per-area"
    ELSE "accept"

\* Mutant of olx_filter: the elevator is not required.
olx_filter_no_elevator(details) ==
    IF /\ Truthy(details.area)
       /\ (details.area[1] < MIN_AREA \/ details.area[1] > MAX_AREA)
    THEN "area-range"
    ELSE IF /\ Truthy(details.rooms)
            /\ (details.rooms[1] < MIN_ROOMS \/ details.rooms[1] > MAX_ROOMS)
         THEN "room-range"
    ELSE IF ~is_floor_valid(details.floor) THEN "floor-position"
    ELSE IF /\ Truthy(details.area)
            /\ details.area[1] > 0
            /\ details.price > 0
            /\ details.price > MAX_PRICE_PER_M2 * details.area[1]
         THEN "price-per-area"
    ELSE "accept"

\* Mutant of olx_filter: a listing whose area is unknown is rejected.
olx_filter_strict(details) ==
    IF ~details.has_elevator THEN "no-elevator"
    ELSE IF \/ details.area = None
            \/ /\ Truthy(details.area)
               /\ (details.area[1] < MIN_AREA \/ details.area[1] > MAX_AREA)
         THEN "area-range"
    ELSE IF /\ Truthy(details.rooms)
            /\ (details.rooms[1] < MIN_ROOMS \/ details.rooms[1] > MAX_ROOMS)
         THEN "room-range"
    ELSE IF ~is_floor_valid(details.floor) THEN "floor-position"
    ELSE IF /\ Truthy(details.area)
            /\ details.area[1] > 0
            /\ details.price > 0
            /\ details.price > MAX_PRICE_PER_M2 * details.area[1]
         THEN "price-per-area"
    ELSE "accept"

\* Mutant of olx_filter: the price per m2 is not tested.
olx_filter_no_price_check(details) ==
    IF ~details.has_elevator THEN "no-elevator"
    ELSE IF /\ Truthy(details.area)
            /\ (details.area[1] < MIN_AREA \/ details.area[1] > MAX_AREA)
         THEN "area-range"
    ELSE IF /\ Truthy(details.rooms)
            /\ (details.rooms[1] < MIN_ROOMS \/ details.rooms[1] > MAX_ROOMS)
         THEN "room-range"
    ELSE IF ~is_floor_valid(details.floor) THEN "floor-position"
    ELSE "accept"

olx_filter(details) ==
    IF ~details.has_elevator THEN "no-elevator"
    ELSE IF /\ Truthy(details.area)
            /\ (details.area[1] < MIN_AREA \/ details.area[1] > MAX_AREA)
         THEN "area-range"
    ELSE IF /\ Truthy(details.rooms)
            /\ (details.rooms[1] < MIN_ROOMS \/ details.rooms[1] > MAX_ROOMS)
         THEN "room-range"
    ELSE IF ~is_floor_valid(details.floor) THEN "floor-position"
    ELSE IF /\ Truthy(details.area)
            /\ details.area[1] > 0
            /\ details.price > 0
            /\ details.price > MAX_PRICE_PER_M2 * details.area[1]
         THEN "price-per-area"
    ELSE "accept"

\* "{:,.0f}" of p / a: the nearest whole number, a tie going to the even one.
RoundHalfEven(p, a) ==
    LET q == p \div a
        r == p % a
    IN  IF 2 * r > a THEN q + 1
        ELSE IF 2 * r < a THEN q
        ELSE IF q % 2 = 0 THEN q
        ELSE q + 1

\* price / area, rounded to a whole number as the listing displays it
\* ("{:,.0f}"); None when area is falsy or price is not positive.
price_per_m2(price, area) ==
    IF Truthy(area) /\ area[1] > 0 /\ price > 0
    THEN Some(RoundHalfEven(price, area[1]))
    ELSE None

---------------------------------------------------------------------------
\* Links.  A link is its domain and its last path segment: the listing's
\* name and whether the segment ends in ".html".
LinkDomains == {"olx.pl", "otodom.pl"}

OlxLink(i) == [domain |-> "olx.pl", name |-> i, html |-> TRUE]

OtodomLink(i) == [domain |-> "otodom.pl", name |-> i, html |-> FALSE]

ForeignLink == [domain |-> "other.pl", name |-> 1, html |-> TRUE]

\* What get_attribute("href") can yield for a card of the OLX list: None, a
\* link to an OLX listing, to an otodom listing or to another site.
OlxHrefs ==
    {None, Some(ForeignLink), Some(OtodomLink(1))}
    \cup {Some(OlxLink(i)) : i \in Ids}

\* The same for a card of the otodom search page.
SearchHrefs ==
    {None, Some(OlxLink(1))} \cup {Some(OtodomLink(i)) : i \in Ids}

\* listing_id = link.split("/")[-1].replace(".html", "")
listing_id(link) == link.name

\* The link test of the OLX card loop: link and any(domain in link ...).
IsListingHref(h) == h # None /\ h[1].domain \in LinkDomains

RECURSIVE collect_links(_)
collect_links(hrefs) ==
    IF hrefs = <<>> THEN <<>>
    ELSE IF IsListingHref(Head(hrefs))
         THEN <<Head(hrefs)[1]>> \o collect_links(Tail(hrefs))
         ELSE collect_links(Tail(hrefs))

\* The link test of the otodom search loop: not link or "otodom.pl" not in link.
IsOtodomHref(h) == h # None /\ h[1].domain = "otodom.pl"

---------------------------------------------------------------------------
\* Dedup ledger.  The ledger file is absent, or holds a JSON array (data),
\* or holds text that json.load cannot parse (valid = FALSE).
NoFile == [exists |-> FALSE, valid |-> TRUE, data |-> <<>>]

BrokenFile == [exists |-> TRUE, valid |-> FALSE, data |-> <<>>]

Programs == {"olx", "otodom"}

\* list(seen): the elements of the set in some order.
Orders(S) == {o \in [1..Cardinality(S) -> S] : Range(o) = S}

\* Mutant of load_seen_listings: an unreadable ledger is taken as empty.
load_swallows(file, io_ok) ==
    IF file.exists /\ io_ok /\ file.valid
    THEN [raised |-> FALSE, value |-> Range(file.data)]
    ELSE [raised |-> FALSE, value |-> {}]

\* load_seen_listings: set(json.load(f)) when the file exists, set() when it
\* does not; raised when the file cannot be read (io_ok = FALSE) or parsed.
load_seen_listings(file, io_ok) ==
    IF ~file.exists THEN [raised |-> FALSE, value |-> {}]
    ELSE IF ~io_ok \/ ~file.valid THEN [raised |-> TRUE, value |-> {}]
    ELSE [raised |-> FALSE, value |-> Range(file.data)]

\* Mutant of save_seen_listings: the last element of the list is not written.
save_drops_last(s, file, outcome, order) ==
    IF outcome = "ok"
    THEN [raised |-> FALSE,
          file |-> [exists |-> TRUE, valid |-> TRUE,
                    data |-> SubSeq(order, 1, Len(order) - 1)]]
    ELSE IF outcome = "open-raises" THEN [raised |-> TRUE, file |-> file]
    ELSE [raised |-> TRUE, file |-> BrokenFile]

\* save_seen_listings: json.dump(list(seen), f) on the file opened with "w".
\* outcome "ok" writes the whole list; "open-raises" leaves the file as it
\* is; "write-raises" leaves the truncated file behind.
save_seen_listings(s, file, outcome, order) ==
    IF outcome = "ok"
    THEN [raised |-> FALSE,
          file |-> [exists |-> TRUE, valid |-> TRUE, data |-> order]]
    ELSE IF outcome = "open-raises" THEN [raised |-> TRUE, file |-> file]
    ELSE [raised |-> TRUE, file |-> BrokenFile]

SaveOutcomes == {"ok", "open-raises", "write-raises"}

\* Mutants of mark: the add is forgotten; the add replaces the set.
mark_forgets(s, i) == s

mark_evicts(s, i) == {i}

\* seen.add(listing_id)
mark(s, i) == s \cup {i}

\* seen.update(l["id"] for l in new_listings)
RECURSIVE mark_all(_, _)
mark_all(s, ls) ==
    IF ls = <<>> THEN s ELSE mark_all(mark(s, Head(ls).id), Tail(ls))

\* Mutant of contains: the membership test never hits.
contains_never(s, i) == FALSE

\* contains: listing_id in seen
contains(s, i) == i \in s

---------------------------------------------------------------------------
\* What fetch_listing_details can return for a listing page: None when the
\* fetch fails, else the dict of extracted fields.
Detail(e, a, r, f, p) ==
    [has_elevator |-> e, area |-> a, rooms |-> r, floor |-> f, price |-> p]

DetailSet ==
    { Detail(TRUE, Some(45), Some(2), <<"3", "/", "6">>, 450000),
      Detail(TRUE, None, None, <<"2", "/", "5">>, 0),
      Detail(FALSE, Some(45), Some(2), <<"3", "/", "6">>, 450000),
      Detail(TRUE, Some(60), Some(2), <<"3", "/", "6">>, 450000),
      Detail(TRUE, Some(45), Some(4), <<"3", "/", "6">>, 450000),
      Detail(TRUE, Some(45), Some(2), <<"6", "/", "6">>, 450000),
      Detail(TRUE, Some(45), Some(2), <<"3", "/", "6">>, 600000) }

FetchResults == {None} \cup {Some(d) : d \in DetailSet}

\* The listing dict scrape_olx appends.
olx_listing(i, l, d) ==
    [id |-> i, link |-> l,
     price |-> IF d.price # 0 THEN Some(d.price) ELSE None,
     area |-> IF Truthy(d.area) THEN d.area ELSE None,
     rooms |-> IF Truthy(d.rooms) THEN d.rooms ELSE None,
     price_per_m2 |-> price_per_m2(d.price, d.area),
     floor |-> d.floor]

\* Mutant of olx_append: the reject branches do not "continue".
olx_append_always(ls, verdict, rec) == Append(ls, rec)

\* scrape_olx: a rejected listing is dropped, an accepted one appended.
olx_append(ls, verdict, rec) ==
    IF verdict = "accept" THEN Append(ls, rec) ELSE ls

\* What the text of an otodom search card can yield.
CardSet ==
    { Detail(TRUE, Some(45), Some(2), <<"3", "/", "6">>, 450000),
      Detail(TRUE, Some(45), Some(2), <<"1", "/", "4">>, 450000),
      Detail(TRUE, Some(45), Some(2), <<"3", "/", "6">>, 600000),
      Detail(TRUE, None, None, NA, 0) }

CardResults == {None} \cup {Some(c) : c \in CardSet}

\* scrape_otodom_search filters on the floor alone.
search_filter(card) ==
    IF ~is_floor_valid(card.floor) THEN "floor-position" ELSE "accept"

\* Mutant of should_send: send_email is called whatever the list holds.
should_send_always(ls) == TRUE

\* if all_listings: / if new_listings:
should_send(ls) == ls # <<>>

\* Mutant of olx_should_save: the save is moved into "if all_listings:".
olx_should_save_if_new(ls) == ls # <<>>

\* olx_scraper.py main saves the ledger whatever was found.
olx_should_save(ls) == TRUE

\* otodom_scraper.py main saves the ledger inside "if new_listings:".
otodom_should_save(ls) == ls # <<>>

IdsOf(ls) == {ls[k].id : k \in DOMAIN ls}

---------------------------------------------------------------------------
\* olx_scraper.py and otodom_scraper.py keep separate ledger files and share
\* no state: a behaviour follows the successive runs of one of the scripts.
VARIABLES
    prog,           \* the script: "olx" or "otodom"
    pc,             \* position of the run in main()
    runs,           \* number of runs started so far
    file,           \* the script's ledger file (SEEN_FILE)
    seen,           \* main's seen set
    listing_links,  \* scrape_olx: the collected links
    ncards,         \* number of cards found on the page being looped over
    idx,            \* index of the loop's current link or card
    link,           \* scrape_otodom_search: the current card's link, or None
    details,        \* scrape_olx: the current result of fetch_listing_details
    olx_listings,   \* result of scrape_olx
    otodom_listings,\* result of scrape_otodom_search
    all_listings,   \* olx_scraper.py main: olx_listings + otodom_listings
    listings,       \* otodom_scraper.py main: result of scrape_listings
    new_listings,   \* otodom_scraper.py main: listings not in seen
    \* History of the current run.
    loaded,         \* the ledger as load_seen_listings returned it
    fetched,        \* ids whose extraction was started
    filtered,       \* ids the filter was evaluated for
    repeated,       \* ids whose extraction or filter was started twice
    fetchFailed,    \* ids whose fetch_listing_details returned None
    noElevator,     \* ids whose extraction gave has_elevator = False
    rejected,       \* ids the filter rejected
    emitted,        \* ids handed to send_email
    log,            \* main's "sink" and "persist" events, in order
    failure,        \* why the run ended with an exception, or "none"
    ioError,        \* the ledger I/O error the run met: "none", "load", "save"
    \* History across runs.
    persistedProc,  \* ids processed by runs that went on to save the ledger
    abortedMarks,   \* ids the previous run marked and took to extraction,
                    \* if it ended without saving the ledger
    \* A function of the scripts applied on its own (UnitSpec).
    callee,         \* the function applied, "none" in the runs of a script
    args,           \* its arguments
    result          \* what it returned, None before it has returned

vars ==
    <<prog, pc, runs, file, seen, listing_links, ncards, idx, link, details,
      olx_listings, otodom_listings, all_listings, listings, new_listings,
      loaded, fetched, filtered, repeated, fetchFailed, rejected, emitted,
      log, failure, ioError, persistedProc, abortedMarks,
      noElevator, callee, args, result>>

loopVars == <<listing_links, ncards, idx, link, details>>

outVars == <<olx_listings, otodom_listings, all_listings, listings, new_listings>>

procHist == <<fetched, filtered, repeated, fetchFailed, rejected, noElevator>>

runHist == <<loaded, emitted, log, failure, ioError>>

crossHist == <<persistedProc, abortedMarks>>

unitVars == <<callee, args, result>>

\* The memory of a process that has just been started.
FreshMemory ==
    /\ seen' = {}
    /\ listing_links' = <<>>
    /\ ncards' = 0
    /\ idx' = 1
    /\ link' = None
    /\ details' = None
    /\ olx_listings' = <<>>
    /\ otodom_listings' = <<>>
    /\ all_listings' = <<>>
    /\ listings' = <<>>
    /\ new_listings' = <<>>
    /\ fetched' = {}
    /\ filtered' = {}
    /\ repeated' = {}
    /\ fetchFailed' = {}
    /\ rejected' = {}
    /\ noElevator' = {}
    /\ emitted' = {}
    /\ log' = <<>>

\* The memory and the ledger file before the first run.
Memory0 ==
    /\ runs = 0
    /\ file = NoFile
    /\ seen = {}
    /\ listing_links = <<>>
    /\ ncards = 0
    /\ idx = 1
    /\ link = None
    /\ details = None
    /\ olx_listings = <<>>
    /\ otodom_listings = <<>>
    /\ all_listings = <<>>
    /\ listings = <<>>
    /\ new_listings = <<>>
    /\ loaded = {}
    /\ fetched = {}
    /\ filtered = {}
    /\ repeated = {}
    /\ fetchFailed = {}
    /\ rejected = {}
    /\ emitted = {}
    /\ log = <<>>
    /\ failure = "none"
    /\ ioError = "none"
    /\ noElevator = {}
    /\ persistedProc = {}
    /\ abortedMarks = {}

Init ==
    /\ prog \in Programs
    /\ pc = "idle"
    /\ Memory0
    /\ callee = "none"
    /\ args = None
    /\ result = None

\* An exception leaves main (through its finally): the process ends and the
\* marks it held in memory are gone.
Raise(cause) ==
    /\ pc' = "failed"
    /\ failure' = cause
    /\ abortedMarks' = (seen \ loaded) \cap fetched
    /\ FreshMemory
    /\ UNCHANGED <<prog, runs, loaded, persistedProc>>

\* The script is started again.
StartRun ==
    /\ pc \in {"idle", "done", "failed"}
    /\ runs < MaxRuns
    /\ pc' = "load"
    /\ runs' = runs + 1
    /\ FreshMemory
    /\ loaded' = {}
    /\ failure' = "none"
    /\ ioError' = "none"
    /\ persistedProc' = IF pc = "done" /\ "persist" \in Range(log)
                        THEN persistedProc \cup fetched
                        ELSE persistedProc
    /\ UNCHANGED <<prog, file, abortedMarks>>
    /\ UNCHANGED unitVars

\* main: seen = load_seen_listings(), outside the try block.
MainLoad ==
    /\ pc = "load"
    /\ \E io_ok \in BOOLEAN :
         LET r == load_seen_listings(file, io_ok) IN
         /\ ioError' = IF file.exists /\ (~io_ok \/ ~file.valid)
                       THEN "load" ELSE "none"
         /\ IF r.raised
            THEN /\ Raise("ledger-load")
                 /\ UNCHANGED file
            ELSE /\ seen' = r.value
                 /\ loaded' = r.value
                 /\ pc' = IF prog = "olx" THEN "olx_collect" ELSE "otodom_open"
                 /\ UNCHANGED <<prog, runs, file, loopVars, outVars, procHist,
                                emitted, log, failure, crossHist>>
    /\ UNCHANGED unitVars

---------------------------------------------------------------------------
\* olx_scraper.py

\* scrape_olx up to its loop: open the list page and collect the links.
\* driver.get raising leaves main; find_elements raising returns [].
OlxCollect ==
    /\ pc = "olx_collect"
    /\ \/ /\ Raise("collaborator")
          /\ UNCHANGED <<file, ioError>>
       \/ /\ \E hrefs \in SeqUpTo(OlxHrefs, MaxLinks) :
               listing_links' = collect_links(hrefs)
          /\ idx' = 1
          /\ pc' = "olx_loop"
          /\ UNCHANGED <<prog, runs, file, seen, ncards, link, details,
                         outVars, procHist, runHist, crossHist>>
    /\ UNCHANGED unitVars

\* scrape_olx loop: derive the id, skip it if seen, else mark it.
OlxLoopHead ==
    /\ pc = "olx_loop"
    /\ idx <= Len(listing_links)
    /\ LET i == listing_id(listing_links[idx]) IN
       IF contains(seen, i)
       THEN /\ idx' = idx + 1
            /\ UNCHANGED <<pc, seen>>
       ELSE /\ seen' = mark(seen, i)
            /\ pc' = "olx_fetch"
            /\ UNCHANGED idx
    /\ UNCHANGED <<prog, runs, file, listing_links, ncards, link, details,
                   outVars, procHist, runHist, crossHist>>
    /\ UNCHANGED unitVars

\* scrape_olx loop: details = fetch_listing_details(...).  An exception on
\* the way (setup_driver for an otodom.pl link) is caught by the loop's
\* except and drops the listing just as a None result does.
OlxFetch ==
    /\ pc = "olx_fetch"
    /\ LET i == listing_id(listing_links[idx]) IN
       \E r \in FetchResults :
         /\ details' = r
         /\ fetched' = fetched \cup {i}
         /\ repeated' = IF i \in fetched THEN repeated \cup {i} ELSE repeated
         /\ fetchFailed' = IF r = None THEN fetchFailed \cup {i} ELSE fetchFailed
    /\ pc' = "olx_filter"
    /\ UNCHANGED <<prog, runs, file, seen, listing_links, ncards, idx, link,
                   outVars, filtered, rejected, noElevator, runHist, crossHist>>
    /\ UNCHANGED unitVars

\* scrape_olx loop: "if not details: continue", the filters and the append.
OlxFilter ==
    /\ pc = "olx_filter"
    /\ LET l == listing_links[idx]
           i == listing_id(l)
       IN  IF details = None
           THEN UNCHANGED <<olx_listings, filtered, repeated, rejected,
                            noElevator>>
           ELSE LET d == details[1]
                    verdict == olx_filter(d)
                IN  /\ filtered' = filtered \cup {i}
                    /\ noElevator' = IF d.has_elevator THEN noElevator
                                     ELSE noElevator \cup {i}
                    /\ repeated' = IF i \in filtered THEN repeated \cup {i}
                                   ELSE repeated
                    /\ rejected' = IF verdict = "accept" THEN rejected
                                   ELSE rejected \cup {i}
                    /\ olx_listings' =
                           olx_append(olx_listings, verdict, olx_listing(i, l, d))
    /\ details' = None
    /\ idx' = idx + 1
    /\ pc' = "olx_loop"
    /\ UNCHANGED <<prog, runs, file, seen, listing_links, ncards, link,
                   otodom_listings, all_listings, listings, new_listings,
                   fetched, fetchFailed, runHist, crossHist>>
    /\ UNCHANGED unitVars

\* scrape_olx returns its listings to main; its locals are gone.
OlxReturn ==
    /\ pc = "olx_loop"
    /\ idx > Len(listing_links)
    /\ listing_links' = <<>>
    /\ idx' = 1
    /\ pc' = "search_open"
    /\ UNCHANGED <<prog, runs, file, seen, ncards, link, details, outVars,
                   procHist, runHist, crossHist>>
    /\ UNCHANGED unitVars

\* main: setup_driver(stealth_mode=True), then scrape_otodom_search up to
\* its loop.  setup_driver or driver.get raising leaves main; find_elements
\* raising is caught and leaves no cards.
SearchOpen ==
    /\ pc = "search_open"
    /\ \/ /\ Raise("collaborator")
          /\ UNCHANGED <<file, ioError>>
       \/ /\ \E n \in 0..MaxCards : ncards' = n
          /\ idx' = 1
          /\ pc' = "search_loop"
          /\ UNCHANGED <<prog, runs, file, seen, listing_links, link, details,
                         outVars, procHist, runHist, crossHist>>
    /\ UNCHANGED unitVars

\* scrape_otodom_search loop: read the card's link (a missing element raises
\* and the card is skipped), test it, derive the id, skip it if seen, else
\* mark it.
SearchLoopHead ==
    /\ pc = "search_loop"
    /\ idx <= ncards
    /\ \E h \in SearchHrefs :
         IF ~IsOtodomHref(h) \/ contains(seen, listing_id(h[1]))
         THEN /\ idx' = idx + 1
              /\ UNCHANGED <<pc, seen, link>>
         ELSE /\ seen' = mark(seen, listing_id(h[1]))
              /\ link' = h
              /\ pc' = "search_card"
              /\ UNCHANGED idx
    /\ UNCHANGED <<prog, runs, file, listing_links, ncards, details, outVars,
                   procHist, runHist, crossHist>>
    /\ UNCHANGED unitVars

\* scrape_otodom_search loop: extract the card's fields, filter on the floor
\* and append.  An exception while reading the card drops it.
SearchCard ==
    /\ pc = "search_card"
    /\ LET i == listing_id(link[1]) IN
       \E c \in CardResults :
         /\ fetched' = fetched \cup {i}
         /\ IF c = None
            THEN /\ repeated' = IF i \in fetched THEN repeated \cup {i}
                                ELSE repeated
                 /\ UNCHANGED <<otodom_listings, filtered, rejected,
                                noElevator>>
            ELSE LET verdict == search_filter(c[1]) IN
                 /\ filtered' = filtered \cup {i}
                 /\ noElevator' = IF c[1].has_elevator THEN noElevator
                                  ELSE noElevator \cup {i}
                 /\ repeated' = IF i \in fetched \/ i \in filtered
                                THEN repeated \cup {i} ELSE repeated
                 /\ rejected' = IF verdict = "accept" THEN rejected
                                ELSE rejected \cup {i}
                 /\ otodom_listings' =
                        olx_append(otodom_listings, verdict,
                                   olx_listing(i, link[1], c[1]))
    /\ link' = None
    /\ idx' = idx + 1
    /\ pc' = "search_loop"
    /\ UNCHANGED <<prog, runs, file, seen, listing_links, ncards, details,
                   olx_listings, all_listings, listings, new_listings,
                   fetchFailed, runHist, crossHist>>
    /\ UNCHANGED unitVars

\* scrape_otodom_search returns its listings to main.
SearchReturn ==
    /\ pc = "search_loop"
    /\ idx > ncards
    /\ ncards' = 0
    /\ idx' = 1
    /\ pc' = "combine"
    /\ UNCHANGED <<prog, runs, file, seen, listing_links, link, details,
                   outVars, procHist, runHist, crossHist>>
    /\ UNCHANGED unitVars

\* main: all_listings = olx_listings + otodom_listings, then send_email when
\* the list is not empty.  send_email catches its own SMTP errors.
MainCombine ==
    /\ pc = "combine"
    /\ all_listings' = olx_listings \o otodom_listings
    /\ IF should_send(all_listings')
       THEN /\ log' = Append(log, "sink")
            /\ emitted' = IdsOf(all_listings')
       ELSE UNCHANGED <<log, emitted>>
    /\ pc' = "save"
    /\ UNCHANGED <<prog, runs, file, seen, loopVars, olx_listings,
                   otodom_listings, listings, new_listings, procHist, loaded,
                   failure, ioError, crossHist>>
    /\ UNCHANGED unitVars

\* main: save_seen_listings(seen), the last statement of the try block.
MainSave ==
    /\ pc = "save"
    /\ IF olx_should_save(all_listings)
       THEN \E outcome \in SaveOutcomes, order \in Orders(seen) :
              LET r == save_seen_listings(seen, file, outcome, order) IN
              /\ file' = r.file
              /\ ioError' = IF outcome = "ok" THEN "none" ELSE "save"
              /\ IF r.raised
                 THEN Raise("ledger-save")
                 ELSE /\ pc' = "done"
                      /\ log' = Append(log, "persist")
                      /\ abortedMarks' = {}
                      /\ UNCHANGED <<prog, runs, seen, loopVars, outVars,
                                     procHist, loaded, emitted, failure,
                                     persistedProc>>
       ELSE /\ pc' = "done"
            /\ abortedMarks' = (seen \ loaded) \cap fetched
            /\ UNCHANGED <<prog, runs, file, seen, loopVars, outVars, procHist,
                           runHist, persistedProc>>
    /\ UNCHANGED unitVars

---------------------------------------------------------------------------
\* otodom_scraper.py

\* scrape_listings up to its loop.  driver.get raising leaves main; the wait
\* for the first card timing out returns [].
OtodomOpen ==
    /\ pc = "otodom_open"
    /\ \/ /\ Raise("collaborator")
          /\ UNCHANGED <<file, ioError>>
       \/ /\ \E n \in 0..MaxLinks : ncards' = n
          /\ idx' = 1
          /\ pc' = "otodom_loop"
          /\ UNCHANGED <<prog, runs, file, seen, listing_links, link, details,
                         outVars, procHist, runHist, crossHist>>
    /\ UNCHANGED unitVars

\* scrape_listings loop: a card without an id is skipped, a card whose
\* elements cannot be read raises and is skipped, any other card is parsed
\* and appended, whether or not its id is in the ledger.
OtodomCard ==
    /\ pc = "otodom_loop"
    /\ idx <= ncards
    /\ \/ UNCHANGED <<listings, fetched>>
       \/ \E i \in Ids :
            /\ listings' = Append(listings, [id |-> i])
            /\ fetched' = fetched \cup {i}
    /\ idx' = idx + 1
    /\ UNCHANGED <<prog, pc, runs, file, seen, listing_links, ncards, link,
                   details, olx_listings, otodom_listings, all_listings,
                   new_listings, filtered, repeated, fetchFailed, rejected,
                   noElevator, runHist, crossHist>>
    /\ UNCHANGED unitVars

\* The listings of ls whose id is not in s, in order.
RECURSIVE not_seen(_, _)
not_seen(ls, s) ==
    IF ls = <<>> THEN <<>>
    ELSE IF contains(s, Head(ls).id) THEN not_seen(Tail(ls), s)
    ELSE <<Head(ls)>> \o not_seen(Tail(ls), s)

\* main: scrape_listings has returned; new_listings = [l for l in listings
\* if l["id"] not in seen]; send_email when the list is not empty.
OtodomFilterNew ==
    /\ pc = "otodom_loop"
    /\ idx > ncards
    /\ new_listings' = not_seen(listings, seen)
    /\ filtered' = IdsOf(listings)
    /\ IF should_send(new_listings')
       THEN /\ log' = Append(log, "sink")
            /\ emitted' = IdsOf(new_listings')
       ELSE UNCHANGED <<log, emitted>>
    /\ ncards' = 0
    /\ idx' = 1
    /\ pc' = IF otodom_should_save(new_listings') THEN "otodom_update" ELSE "done"
    /\ abortedMarks' = {}
    /\ UNCHANGED <<prog, runs, file, seen, listing_links, link, details,
                   olx_listings, otodom_listings, all_listings, listings,
                   fetched, repeated, fetchFailed, rejected, noElevator,
                   loaded, failure, ioError, persistedProc>>
    /\ UNCHANGED unitVars

\* main: seen.update(...) and save_seen_listings(seen).
OtodomUpdateSave ==
    /\ pc = "otodom_update"
    /\ \E outcome \in SaveOutcomes,
          order \in Orders(mark_all(seen, new_listings)) :
         LET r == save_seen_listings(mark_all(seen, new_listings), file,
                                     outcome, order)
         IN
         /\ file' = r.file
         /\ ioError' = IF outcome = "ok" THEN "none" ELSE "save"
         /\ IF ~r.raised
            THEN /\ seen' = mark_all(seen, new_listings)
                 /\ pc' = "done"
                 /\ log' = Append(log, "persist")
                 /\ UNCHANGED <<prog, runs, loopVars, outVars, procHist,
                                loaded, emitted, failure, crossHist>>
            ELSE /\ pc' = "failed"
                 /\ failure' = "ledger-save"
                 /\ abortedMarks' = mark_all(seen, new_listings) \ loaded
                 /\ FreshMemory
                 /\ UNCHANGED <<prog, runs, loaded, persistedProc>>
    /\ UNCHANGED unitVars

---------------------------------------------------------------------------
\* Positions inside main's try block.
TryBlock ==
    {"olx_collect", "olx_loop", "olx_fetch", "olx_filter", "search_open",
     "search_loop", "search_card", "combine", "save",
     "otodom_open", "otodom_loop", "otodom_update"}

\* KeyboardInterrupt or SystemExit: no "except Exception" catches it, main
\* has no handler, only the finally that quits the drivers.
Interrupt ==
    /\ pc \in TryBlock
    /\ Raise("interrupt")
    /\ UNCHANGED <<file, ioError>>
    /\ UNCHANGED unitVars

Next ==
    \/ StartRun
    \/ MainLoad
    \/ OlxCollect
    \/ OlxLoopHead
    \/ OlxFetch
    \/ OlxFilter
    \/ OlxReturn
    \/ SearchOpen
    \/ SearchLoopHead
    \/ SearchCard
    \/ SearchReturn
    \/ MainCombine
    \/ MainSave
    \/ OtodomOpen
    \/ OtodomCard
    \/ OtodomFilterNew
    \/ OtodomUpdateSave
    \/ Interrupt

Spec == Init /\ [][Next]_vars

---------------------------------------------------------------------------
\* The functions of the scripts applied on their own: the arguments are
\* drawn at the start and one step applies the function to them.

\* fetch_listing_details: the area found in the page text, else, when that
\* is missing or 0, the one found in the title.
extract_area(page_area, title_area) ==
    IF ~Truthy(page_area) /\ title_area # None THEN title_area ELSE page_area

\* fetch_listing_details: the room count found in the page text; 1 when that
\* is missing or 0 and the page names a studio ("kawalerk", "1 pokoj").
extract_rooms(page_rooms, studio) ==
    IF ~Truthy(page_rooms) /\ studio THEN Some(1) ELSE page_rooms

\* What the patterns for the area and the room count can match.
RawAreas == {None, Some(0), Some(30), Some(45), Some(60)}

RawRooms == {None, Some(0), Some(2), Some(4)}

FilterFloors ==
    {NA, <<"3", "/", "6">>, <<"2", "/", "5">>, <<"1", "/", "4">>,
     <<"6", "/", "6">>, <<"parter">>}

FilterPrices == {0, 5000, 450000, 600000}

\* The dicts fetch_listing_details can return, as far as the filter reads them.
FilterInputs ==
    {Detail(e, extract_area(pa, ta), extract_rooms(pr, st), f, p) :
        e \in BOOLEAN, pa \in RawAreas, ta \in {None, Some(45)},
        pr \in RawRooms, st \in BOOLEAN, f \in FilterFloors,
        p \in FilterPrices}

\* fetch_listing_details, "Extract price".  candidates holds, for each of the
\* price selectors in order, None when the selector gives no price text (no
\* element, no "zl" in its text, a price per m2, or a text extract_number
\* cannot convert) and else the number extract_number returns; fallback is
\* the same for the price pattern searched in the page source.
PRICE_SELECTORS == 5

SANITY_PRICE == 10000

\* for selector in price_selectors: price = extract_number(price_text), and
\* break when price > 10000.
RECURSIVE price_loop(_, _)
price_loop(candidates, price) ==
    IF candidates = <<>> THEN price
    ELSE IF Head(candidates) = None THEN price_loop(Tail(candidates), price)
    ELSE IF Head(candidates)[1] > SANITY_PRICE THEN Head(candidates)[1]
    ELSE price_loop(Tail(candidates), Head(candidates)[1])

extract_price(candidates, fallback) ==
    LET price == price_loop(candidates, 0) IN
    IF price = 0 /\ fallback # None THEN fallback[1] ELSE price

\* What a price text can convert to.
PriceCandidates == {None, Some(0), Some(500), Some(450000)}

PriceInputs ==
    [candidates : [1..PRICE_SELECTORS -> PriceCandidates],
     fallback : PriceCandidates]

\* fetch_listing_details, has_elevator.  A text is a sequence of words: the
\* words that open a negative phrase ("nie ma", "brak", "bez"), the keywords
\* "windy" and "winda:", the word "nie", another word "x" and the heading
\* "podobne ogloszenia" of the section of similar listings.
MaxTextLen == 2

NegativeLeads == {"nie ma", "brak", "bez"}

ElevatorWords == {"windy", "winda:"}

TextTokens ==
    NegativeLeads \cup ElevatorWords \cup {"nie", "x", "podobne ogloszenia"}

Texts == SeqUpTo(TextTokens, MaxTextLen)

\* any(phrase in text for phrase in ["nie ma wind", "brak wind", "bez wind"])
negative_phrase(text) ==
    \E k \in 1..(Len(text) - 1) :
        text[k] \in NegativeLeads /\ text[k + 1] \in ElevatorWords

\* '"winda","value":"nie"' or 'winda: nie' in text
negative_value(text) ==
    \E k \in 1..(Len(text) - 1) :
        text[k] = "winda:" /\ text[k + 1] \in {"nie", "nie ma"}

\* any(word in text for word in ["winda", "windy", ...])
positive_word(text) == \E k \in DOMAIN text : text[k] \in ElevatorWords

\* page_source[:similar_idx]: the page up to the section of similar listings.
RECURSIVE page_text_clean(_)
page_text_clean(page_source) ==
    IF page_source = <<>> THEN <<>>
    ELSE IF Head(page_source) = "podobne ogloszenia" THEN <<>>
    ELSE <<Head(page_source)>> \o page_text_clean(Tail(page_source))

\* Mutant of fetch_has_elevator: a keyword in the description wins over a
\* negative phrase in it.
fetch_has_elevator_keyword_wins(desc_text, page_source) ==
    IF positive_word(desc_text) THEN TRUE
    ELSE IF negative_phrase(desc_text) THEN FALSE
    ELSE IF \/ negative_phrase(page_text_clean(page_source))
            \/ negative_value(page_text_clean(page_source))
         THEN FALSE
    ELSE positive_word(page_text_clean(page_source))

\* has_elevator of fetch_listing_details: the description first, the page
\* source only when the description has neither a negative phrase nor a
\* keyword.
fetch_has_elevator(desc_text, page_source) ==
    IF negative_phrase(desc_text) THEN FALSE
    ELSE IF positive_word(desc_text) THEN TRUE
    ELSE IF \/ negative_phrase(page_text_clean(page_source))
            \/ negative_value(page_text_clean(page_source))
         THEN FALSE
    ELSE positive_word(page_text_clean(page_source))

ElevatorInputs == [desc_text : Texts, page_source : Texts]

\* The floor descriptors the functions of the floor model are applied to.
MaxFloorLen == 4

FloorTokens ==
    {"0", "1", "3", "4", "8", "/", "parter", "PARTER", "N/A", "-", " ", "x"}

FloorInputs == SeqUpTo(FloorTokens, MaxFloorLen)

UnitCalls ==
    [fn : {"olx_filter"}, input : FilterInputs]
    \cup [fn : {"parse_floor", "is_floor_valid"}, input : FloorInputs]
    \cup [fn : {"extract_price"}, input : PriceInputs]
    \cup [fn : {"has_elevator"}, input : ElevatorInputs]

UnitInit ==
    /\ prog = "olx"
    /\ pc = "call"
    /\ Memory0
    /\ \E c \in UnitCalls :
         /\ callee = c.fn
         /\ args = c.input
    /\ result = None

runVars ==
    <<prog, runs, file, seen, loopVars, outVars, procHist, runHist, crossHist>>

Return(value) ==
    /\ pc' = "returned"
    /\ result' = Some(value)
    /\ UNCHANGED <<callee, args, runVars>>

\* One iteration of scrape_olx's loop from "Apply filters" on, for the
\* details of a listing with id 1.
CallFilter ==
    /\ pc = "call"
    /\ callee = "olx_filter"
    /\ LET verdict == olx_filter(args) IN
       Return([verdict |-> verdict,
               evaluated |-> olx_evaluated(args),
               listings |-> olx_append(<<>>, verdict,
                                       olx_listing(1, OlxLink(1), args))])

CallParseFloor ==
    /\ pc = "call"
    /\ callee = "parse_floor"
    /\ Return(parse_floor(args))

CallIsFloorValid ==
    /\ pc = "call"
    /\ callee = "is_floor_valid"
    /\ Return(is_floor_valid(args))

CallExtractPrice ==
    /\ pc = "call"
    /\ callee = "extract_price"
    /\ Return(extract_price(args.candidates, args.fallback))

CallHasElevator ==
    /\ pc = "call"
    /\ callee = "has_elevator"
    /\ Return(fetch_has_elevator(args.desc_text, args.page_source))

UnitNext ==
    \/ CallFilter
    \/ CallParseFloor
    \/ CallIsFloorValid
    \/ CallExtractPrice
    \/ CallHasElevator

UnitSpec == UnitInit /\ [][UnitNext]_vars

Returned(fn) == pc = "returned" /\ callee = fn

---------------------------------------------------------------------------
\* Vocabulary of the properties.

\* The ledger a load of the file would return now.
OnDisk == IF file.exists /\ file.valid THEN Range(file.data) ELSE {}

\* The run has saved its ledger.
Persisted == "persist" \in Range(log)

\* The run has called send_email.
SinkCalled == "sink" \in Range(log)

\* The list main hands to send_email.
Output == IF prog = "olx" THEN all_listings ELSE new_listings

\* main has passed its "if all_listings:" / "if new_listings:".
Decided == pc \in {"save", "otodom_update", "done"}

\* The process is alive and past load_seen_listings.
Running == pc \in TryBlock \cup {"done"}

---------------------------------------------------------------------------
\* C1: in the runs of olx_scraper.py, which load the ledger at start and save
\* it at the end, each listing id is routed to extraction and filtering at
\* most once: no id of the loaded ledger is fetched or filtered, no id is
\* fetched or filtered twice in a run, and no id processed by an earlier run
\* that saved its ledger is processed again, whether it was accepted or
\* rejected and whether the OLX list or the otodom search page surfaced it.
C1_RoutedAtMostOnce ==
    prog = "olx" =>
        /\ repeated = {}
        /\ (fetched \cup filtered) \cap loaded = {}
        /\ (fetched \cup filtered) \cap persistedProc = {}

\* A second run has met, first on its OLX list, an id that an earlier run
\* processed and saved, and has skipped it without fetching anything.
C1_Witness ==
    /\ prog = "olx"
    /\ pc = "olx_loop"
    /\ idx = 2
    /\ listing_id(listing_links[1]) \in persistedProc \cap loaded
    /\ fetched = {}

\* C2: for every candidate id not yet in the ledger, the id is marked before
\* any extraction, filter or notification step for it starts: whatever has
\* been extracted, filtered or handed to send_email is in seen.
C2_MarkBeforeProcess ==
    \A i \in fetched \cup filtered \cup emitted : contains(seen, i)

\* C3 as stated: a run that aborts after marking an id does not cause the
\* next run to extract or filter that id again (here for the ids the aborted
\* run had marked and taken to extraction).
C3_NoReprocessAfterAbort ==
    prog = "olx" => (fetched \cup filtered) \cap abortedMarks = {}

\* C3 as amended: only the ledger that was saved protects an id.  The ids of
\* the ledger a run loads are not extracted or filtered in that run; the ids
\* a run marked and processed before it ended without saving are not in the
\* ledger file nor in the ledger the next run loads, so the next run
\* processes them again when they are surfaced.
C3_OnlySavedMarksProtect ==
    prog = "olx" =>
        /\ (fetched \cup filtered) \cap loaded = {}
        /\ abortedMarks \cap OnDisk = {}
        /\ Running => abortedMarks \cap loaded = {}

\* The run after an aborted one is extracting an id the aborted run marked.
C3_Witness ==
    /\ prog = "olx"
    /\ pc = "olx_filter"
    /\ abortedMarks \cap fetched # {}

\* C4 as stated: a run that processed all its candidates has saved the
\* ledger, also when nothing qualified, and saved it before send_email.
C4_PersistBeforeSink ==
    pc = "done" => log \in {<<"persist">>, <<"persist", "sink">>}

\* C4 as amended: a run of olx_scraper.py that processed all its candidates
\* and ended normally has saved the ledger, also when nothing qualified, and
\* the save comes after send_email; otodom_scraper.py saves the ledger only
\* when there is a new listing, and also after send_email.
C4_SinkThenPersist ==
    pc = "done" =>
        /\ prog = "olx" => Persisted /\ OnDisk = seen
        /\ prog = "otodom" => (Persisted <=> new_listings # <<>>)
        /\ Persisted /\ SinkCalled => log = <<"sink", "persist">>
        /\ Persisted /\ ~SinkCalled => log = <<"persist">>

\* A run of olx_scraper.py called send_email and then saved the ledger.
C4_Witness ==
    /\ prog = "olx"
    /\ pc = "done"
    /\ log = <<"sink", "persist">>

\* C5: send_email is called in a run if and only if the list of accepted
\* listings is not empty, and then with that list; a run with no qualifying
\* listing never calls it and goes on to its normal end.
C5_SinkIffNonEmpty ==
    /\ SinkCalled <=> (Decided /\ Output # <<>>)
    /\ SinkCalled => emitted = IdsOf(Output)
    /\ ~SinkCalled => emitted = {}
    /\ Decided /\ Output = <<>> =>
           pc \in (IF prog = "olx" THEN {"save", "done"} ELSE {"done"})

\* A run processed a listing, none qualified, and it ended normally without
\* calling send_email.
C5_Witness ==
    /\ prog = "olx"
    /\ pc = "done"
    /\ fetched # {}
    /\ all_listings = <<>>
    /\ ~SinkCalled

\* C6: once an id is marked it stays contained for the rest of the run,
\* marking it again changes nothing, and it is still contained after the
\* ledger has been saved and loaded again: the saved file loads to the very
\* set that was saved, and every id processed by an earlier run that saved
\* is contained in a later run's ledger.
C6_DedupIdempotence ==
    /\ [][pc' # "failed" /\ pc' # "load" =>
            \A i \in Ids : contains(seen, i) => contains(seen', i)]_vars
    /\ [](\A i \in seen : mark(seen, i) = seen)
    /\ [](pc = "done" /\ Persisted =>
            /\ ~load_seen_listings(file, TRUE).raised
            /\ load_seen_listings(file, TRUE).value = seen)
    /\ [](Running => \A i \in persistedProc : contains(seen, i))

\* A later run holds, loaded from the file, the ids an earlier run marked.
C6_Witness ==
    /\ runs >= 2
    /\ pc \in {"olx_collect", "otodom_open"}
    /\ persistedProc # {}
    /\ persistedProc \subseteq seen

\* C7: the ledger grows monotonically.  No step of a run removes an id from
\* seen, no save removes an id from a readable ledger file, and the ledger a
\* run has saved contains the ledger it loaded.
C7_LedgerMonotone ==
    /\ [][pc' # "failed" /\ pc' # "load" => seen \subseteq seen']_vars
    /\ [][file'.valid => OnDisk \subseteq OnDisk']_vars
    /\ [](pc = "done" => loaded \subseteq seen /\ loaded \subseteq OnDisk)

\* A run loaded a ledger that was not empty, marked more ids and saved.
C7_Witness ==
    /\ pc = "done"
    /\ Persisted
    /\ loaded # {}
    /\ loaded # seen
    /\ loaded \subseteq OnDisk

\* C8: a listing the filter rejects leaves no output and keeps its ledger
\* entry: its id is in no output list and was not handed to send_email, it
\* is in seen, and it is in the ledger file once the run has saved.
C8_RejectedKeepsEntry ==
    \A i \in rejected :
        /\ contains(seen, i)
        /\ i \notin IdsOf(olx_listings) \cup IdsOf(otodom_listings)
        /\ i \notin IdsOf(all_listings) \cup emitted
        /\ pc = "done" => i \in OnDisk

\* A run rejected one listing, accepted another and saved the ledger.
C8_Witness ==
    /\ pc = "done"
    /\ rejected # {}
    /\ all_listings # <<>>
    /\ rejected \subseteq OnDisk

\* C9: a listing whose fetch_listing_details failed is not dropped: the run
\* goes on to its end and the listing has been through the filter.
C9_FailedFetchStillFiltered ==
    prog = "olx" /\ pc = "done" => fetchFailed \subseteq filtered

\* C10: a ledger I/O failure is fatal for the run.  A failure to read the
\* file at load or to write it at save ends main with the error; a run that
\* goes on holds exactly the ledger of its file, which is the empty ledger
\* only when the file is missing or holds the empty list; a run of
\* olx_scraper.py that ended normally has written its ledger.
C10_LedgerIOFatal ==
    /\ ioError # "none" => pc = "failed"
    /\ ioError = "load" => failure = "ledger-load"
    /\ ioError = "save" => failure = "ledger-save"
    /\ pc \in TryBlock =>
           /\ file.exists => file.valid
           /\ loaded = OnDisk
    /\ pc = "done" /\ prog = "olx" => file.exists /\ file.valid /\ OnDisk = seen

\* A run could not read a ledger file that exists and ended with the error.
C10_Witness ==
    /\ pc = "failed"
    /\ ioError = "load"
    /\ file.exists
    /\ runs >= 2

\* The first run found no ledger file and went on with the empty ledger.
C10_MissingFileWitness ==
    /\ pc = "olx_collect"
    /\ ~file.exists
    /\ seen = {}

---------------------------------------------------------------------------
\* The checks of FilterChecks that fail for d.
Failing(d) == {k \in DOMAIN FilterChecks : check_fails(FilterChecks[k], d)}

\* The least element of a non-empty set of numbers.
Least(S) == CHOOSE k \in S : \A j \in S : k <= j

\* C11: the filter applies its checks in the order elevator, area range,
\* room range, floor position, unit price, and the first failing check ends
\* the evaluation: the verdict is the reason of the earliest failing check
\* (accept when none fails), and the checks evaluated are those up to and
\* including it, in that order.
C11_FirstFailingCheck ==
    /\ FilterChecks = <<"no-elevator", "area-range", "room-range",
                        "floor-position", "price-per-area">>
    /\ Returned("olx_filter") =>
        LET r == result[1] IN
        IF Failing(args) = {}
        THEN /\ r.verdict = "accept"
             /\ r.evaluated = FilterChecks
        ELSE /\ r.verdict = FilterChecks[Least(Failing(args))]
             /\ r.evaluated = SubSeq(FilterChecks, 1, Least(Failing(args)))

\* A listing fails the area range, the room range and the floor position at
\* once; it was rejected for its area and nothing after that was evaluated.
C11_Witness ==
    /\ Returned("olx_filter")
    /\ Failing(args) = {2, 3, 4}
    /\ result[1].verdict = "area-range"
    /\ Len(result[1].evaluated) = 2

\* C12: the elevator is a hard requirement.  Every listing whose extraction
\* gave has_elevator = False is rejected, whatever its other fields are, and
\* is in no output list nor in what is handed to send_email.
C12_ElevatorRequired ==
    \A i \in noElevator :
        /\ i \in rejected
        /\ i \notin IdsOf(olx_listings) \cup IdsOf(otodom_listings)
        /\ i \notin IdsOf(all_listings) \cup emitted

\* A run met a listing without elevator and another that was accepted; only
\* the second was handed to send_email.
C12_Witness ==
    /\ pc = "done"
    /\ noElevator # {}
    /\ emitted # {}
    /\ noElevator \subseteq rejected \ emitted

\* A known value lies in the closed range lo..hi.
InRange(o, lo, hi) == o # None /\ lo <= o[1] /\ o[1] <= hi

C14_KnownOutOfRangeRejected ==
    Returned("olx_filter") =>
        /\ (args.area # None /\ ~InRange(args.area, MIN_AREA, MAX_AREA))
               => result[1].verdict # "accept"
        /\ (args.rooms # None /\ ~InRange(args.rooms, MIN_ROOMS, MAX_ROOMS))
               => result[1].verdict # "accept"

\* The record's unit price is price / area to the nearest whole number, and
\* absent when the area or the price is absent.
UnitPriceOf(rec) ==
    IF rec.area # None /\ rec.price # None
    THEN /\ rec.price_per_m2 # None
         /\ 2 * (rec.price_per_m2[1] * rec.area[1] - rec.price[1]) <= rec.area[1]
         /\ 2 * (rec.price[1] - rec.price_per_m2[1] * rec.area[1]) <= rec.area[1]
    ELSE rec.price_per_m2 = None

\* The record's price per m2 does not exceed MAX_PRICE_PER_M2.
WithinUnitPrice(rec) ==
    (rec.area # None /\ rec.price # None)
        => rec.price[1] <= MAX_PRICE_PER_M2 * rec.area[1]

\* C15 as stated: every record scrape_olx or scrape_otodom_search has
\* appended, with a known area and price, has a price per m2 of at most
\* MAX_PRICE_PER_M2, and its unit price is price / area.
C15_OutputWithinUnitPrice ==
    /\ \A k \in DOMAIN olx_listings :
          WithinUnitPrice(olx_listings[k]) /\ UnitPriceOf(olx_listings[k])
    /\ \A k \in DOMAIN otodom_listings :
          WithinUnitPrice(otodom_listings[k]) /\ UnitPriceOf(otodom_listings[k])

\* C15 as amended: every record scrape_olx has appended has passed the unit
\* price check; scrape_otodom_search filters on the floor alone, so each of
\* its records has a valid or unknown floor, whatever its price per m2 is;
\* in both, the record's unit price is price / area, absent when it cannot be
\* computed.
C15_OlxOutputWithinUnitPrice ==
    /\ \A k \in DOMAIN olx_listings :
          WithinUnitPrice(olx_listings[k]) /\ UnitPriceOf(olx_listings[k])
    /\ \A k \in DOMAIN otodom_listings :
          is_floor_valid(otodom_listings[k].floor)
              /\ UnitPriceOf(otodom_listings[k])

\* scrape_olx has accepted the listing of 45 m2 for 450000 with unit price
\* 10000, and scrape_otodom_search a card above MAX_PRICE_PER_M2.
C15_Witness ==
    /\ pc = "combine"
    /\ \E k \in DOMAIN olx_listings :
          /\ olx_listings[k].area = Some(45)
          /\ olx_listings[k].price = Some(450000)
          /\ olx_listings[k].price_per_m2 = Some(10000)
    /\ \E k \in DOMAIN otodom_listings : ~WithinUnitPrice(otodom_listings[k])

---------------------------------------------------------------------------
\* C16: is_floor_valid implements the floor policy for every descriptor:
\* true when the parsed current floor is unknown; false when current <= 1;
\* false when the total is known and current >= total; true in all other
\* cases.  parter/4 and 8/8 are invalid, 3/8 is valid, a descriptor that
\* cannot be parsed is valid.
C16_FloorPolicy ==
    Returned("is_floor_valid") =>
        LET current == parse_floor(args)[1]
            total == parse_floor(args)[2]
        IN  /\ current = None => result[1] = TRUE
            /\ (current # None /\ current[1] <= 1) => result[1] = FALSE
            /\ (current # None /\ total # None /\ current[1] >= total[1])
                   => result[1] = FALSE
            /\ ( /\ current # None
                 /\ current[1] > 1
                 /\ total = None \/ current[1] < total[1] )
                   => result[1] = TRUE
            /\ args = <<"parter", "/", "4">> => result[1] = FALSE
            /\ args = <<"8", "/", "8">> => result[1] = FALSE
            /\ args = <<"3", "/", "8">> => result[1] = TRUE
            /\ args \in {NA, <<>>, <<"x">>, <<"3", "x">>} => result[1] = TRUE

\* is_floor_valid has returned False for the top floor 8/8.
C16_Witness ==
    /\ Returned("is_floor_valid")
    /\ args = <<"8", "/", "8">>
    /\ result[1] = FALSE

\* The descriptor as parse_floor reads it: trimmed and in lower case.
Norm(d) == lower(strip(d))

Ground(x) == x = <<"parter">>

Number(x) == AllDigits(x)

Left(s, k) == SubSeq(s, 1, k - 1)

Right(s, k) == SubSeq(s, k + 1, Len(s))

SideValue(x) == IF Ground(x) THEN 0 ELSE DecimalValue(x)

\* The positions of a "/" that splits s into the shapes n/m, ground/m and
\* n/ground.
StatedSplits(s) ==
    {k \in DOMAIN s :
        /\ s[k] = "/"
        /\ \/ Number(Left(s, k)) /\ Number(Right(s, k))
           \/ Ground(Left(s, k)) /\ Number(Right(s, k))
           \/ Number(Left(s, k)) /\ Ground(Right(s, k))}

\* The same with the shape ground/ground.
GroundSplits(s) ==
    {k \in DOMAIN s :
        /\ s[k] = "/"
        /\ Ground(Left(s, k))
        /\ Ground(Right(s, k))}

\* The floor position of a descriptor whose slash shapes are at splits.
PositionOf(d, splits) ==
    IF d = <<>> \/ d = NA THEN <<None, None>>
    ELSE IF splits # {}
         THEN LET k == CHOOSE j \in splits : TRUE IN
              <<Some(SideValue(Left(Norm(d), k))),
                Some(SideValue(Right(Norm(d), k)))>>
    ELSE IF Ground(Norm(d)) THEN <<Some(0), None>>
    ELSE IF IsPyInt(Norm(d)) THEN <<Some(PyInt(Norm(d))), None>>
    ELSE <<None, None>>

\* C17 as stated: n/m gives (n, m), ground/m gives (0, m), n/ground gives
\* (n, 0), a bare ground token gives (0, unknown), a bare integer n gives
\* (n, unknown), and every other shape, the sentinel and the empty string
\* included, gives (unknown, unknown).
C17_ParseFloorShapes ==
    Returned("parse_floor") =>
        result[1] = PositionOf(args, StatedSplits(Norm(args)))

\* C17 as amended: the descriptor is read trimmed and in lower case; each
\* side of the slash is the ground token or a number, so that beside n/m,
\* ground/m and n/ground also ground/ground has a position, (0, 0); a bare
\* ground token gives (0, unknown), a bare integer n, signed or not, gives
\* (n, unknown); every other shape, the sentinel and the empty string
\* included, gives (unknown, unknown); a result is returned for every
\* descriptor.
C17_ParseFloorShapesGround ==
    Returned("parse_floor") =>
        /\ result[1] =
               PositionOf(args, StatedSplits(Norm(args))
                                    \cup GroundSplits(Norm(args)))
        /\ args = <<"3", "/", "8">> => result[1] = <<Some(3), Some(8)>>
        /\ args = <<"parter", "/", "4">> => result[1] = <<Some(0), Some(4)>>
        /\ args = <<"3", "/", "parter">> => result[1] = <<Some(3), Some(0)>>
        /\ args = <<"PARTER", " ">> => result[1] = <<Some(0), None>>
        /\ args = <<"1", "0">> => result[1] = <<Some(10), None>>
        /\ args = <<"-", "3">> => result[1] = <<Some(0 - 3), None>>
        /\ args \in {<<>>, NA, <<"x">>, <<"3", "/">>, <<"3", " ", "/", "8">>}
               => result[1] = <<None, None>>

\* parse_floor has returned (0, 0) for parter/parter.
C17_Witness ==
    /\ Returned("parse_floor")
    /\ args = <<"parter", "/", "parter">>
    /\ result[1] = <<Some(0), Some(0)>>

---------------------------------------------------------------------------
\* C18: the price fetch_listing_details returns is 0 (not found) or above
\* the threshold of 10000: a candidate below the threshold is discarded, so
\* that a later candidate, a later selector or the page pattern, supplies the
\* price when it is above the threshold.
C18_PriceSanityFloor ==
    Returned("extract_price") =>
        /\ result[1] = 0 \/ result[1] > SANITY_PRICE
        /\ ( \/ \E k \in DOMAIN args.candidates :
                   /\ args.candidates[k] # None
                   /\ args.candidates[k][1] > SANITY_PRICE
             \/ /\ args.fallback # None
                /\ args.fallback[1] > SANITY_PRICE )
               => result[1] > SANITY_PRICE

---------------------------------------------------------------------------
\* The page source is examined only when the description holds neither a
\* negative phrase nor a keyword.
PageExamined(desc_text) ==
    ~negative_phrase(desc_text) /\ ~positive_word(desc_text)

\* C19: a negative phrase wins.  When one of "nie ma wind", "brak wind",
\* "bez wind" occurs in the text that is examined, the description or, when
\* the description decides nothing, the page up to the similar listings,
\* has_elevator is False whatever keywords the description and the page hold.
C19_NegationWins ==
    Returned("has_elevator") =>
        /\ negative_phrase(args.desc_text) => result[1] = FALSE
        /\ ( /\ PageExamined(args.desc_text)
             /\ negative_phrase(page_text_clean(args.page_source)) )
               => result[1] = FALSE
        /\ args.desc_text = <<"brak", "windy">> => result[1] = FALSE

\* The description holds the negative phrase "brak windy", whose second word
\* is a keyword too, the page holds keywords only: has_elevator is False.
C19_Witness ==
    /\ Returned("has_elevator")
    /\ args.desc_text = <<"brak", "windy">>
    /\ args.page_source = <<"windy", "winda:">>
    /\ result[1] = FALSE

---------------------------------------------------------------------------
\* No two records of a list have the same id.
DistinctIds(ls) == \A j, k \in DOMAIN ls : ls[j].id = ls[k].id => j = k

\* C20: the list handed to send_email in a run never holds two records with
\* the same id, also when the page yields a link or id more than once and
\* when the OLX list and the otodom search surface the same listing.
C20_NoDuplicateIds == SinkCalled => DistinctIds(Output)

====
